---- MODULE Spec2Model ----
(***************************************************************************)
(* Model of the job / use-case execution orchestration of doc-analyser.    *)
(*                                                                         *)
(*   SpecCelery : tasks.analyze_repository fanning out one                 *)
(*                tasks.execute_single_use_case task per use case, all     *)
(*                of them reading and writing the job record in Redis.     *)
(*   SpecPool   : DockerRunner.execute_use_cases_with_pool, the polling    *)
(*                container pool (SpecPoolFair adds the scheduling of the  *)
(*                polling loop, SpecPoolLocal is the call without a store  *)
(*                client).                                                 *)
(*   SpecPar    : UseCaseOrchestrator.execute_job_parallel on top of       *)
(*                ParallelDockerExecutor (SpecParFair adds the scheduling  *)
(*                of its threads, SpecMonitor the ContainerMonitor).       *)
(*   SpecExecution, SpecQueues : unions of the above.                      *)
(*   SpecService, SpecRedelivery, SpecUnreachable : SpecCelery with the    *)
(*                status query, with redelivery, with Redis unreachable.   *)
(*   SpecSubmit : AnalysisService.submit_analysis followed by SpecCelery.  *)
(***************************************************************************)
EXTENDS Integers, Sequences, FiniteSets, TLC

\* ------------------------------------------------------------------ bounds
MaxUseCases == 2

\* the largest len(use_cases) and pool_size given to execute_use_cases_with_pool
MaxPoolUseCases == 3

MaxPoolSize == 2

\* the largest len(use_cases) in the pool runs of SpecPoolFair and SpecExecution
MaxFairUseCases == 2

\* the largest number of deliveries of the analyze_repository message
MaxDeliveries == 2

\* the largest len(use_cases) and max_containers given to UseCaseOrchestrator
MaxParUseCases == 2

MaxParContainers == 2

\* ------------------------------------------------------------------ state
VARIABLES
    job,            \* the job record stored under job:{job_id} in Redis
    a_pc,           \* analyze_repository: position in the task body
    a_n,            \* analyze_repository: len(use_cases) after extraction
    a_i,            \* analyze_repository: index of the dispatch loop
    t_pc,           \* execute_single_use_case(i): position in the task body
    t_job_data,     \* execute_single_use_case(i): local job_data
    t_use_cases,    \* execute_single_use_case(i): local use_cases
    t_result,       \* execute_single_use_case(i): result["exit_code"]
    repo_dir,       \* the directory {DATA_DIR}/{job_id}/repo
    extraction_result, \* analyze_repository: outcome of extract_use_cases
    output_dir,     \* the directory {DATA_DIR}/{job_id}/data after extraction
    deliveries,     \* deliveries of the analyze_repository message so far
    q_pc,           \* AnalysisService.get_job_status: position in the body,
                    \* or how the last call ended ("returned", "raised")
    q_job_data,     \* AnalysisService.get_job_status: local job_data
    p_pc,           \* execute_use_cases_with_pool: position in the body
    p_n,            \* execute_use_cases_with_pool: len(use_cases)
    p_i,            \* execute_use_cases_with_pool: iterations of the initial batch
    pool_size,      \* execute_use_cases_with_pool: argument pool_size
    redis_client,   \* execute_use_cases_with_pool: a redis_client was passed
    use_case_queue, \* execute_use_cases_with_pool: indices still queued
    container_pool, \* execute_use_cases_with_pool: the dict, in insertion order
    results,        \* execute_use_cases_with_pool: the result list
    completed_count,
    failed_count,
    containers,     \* the Docker daemon: state of the container of use case i
    o_pc,           \* execute_job_parallel: position in the body
    o_n,            \* execute_job_parallel: len(use_cases)
    max_containers, \* ParallelDockerExecutor.max_containers
    redis_queue,    \* the Redis list parallel:queue:{job_id}, head first
    active_containers, \* ParallelDockerExecutor.active_containers (its keys)
    futures,        \* execute_job_parallel: keys of the dict futures
    available_slots,\* execute_job_parallel: iterations left of the slot loop
    o_completed,    \* execute_job_parallel: completed_count
    o_failed,       \* execute_job_parallel: failed_count
    f_pc,           \* _run_single_use_case for use case i: position
    f_result,       \* _run_single_use_case for use case i: its return value
    uc_status,      \* the status stored under parallel:result:{job_id}:{id}
    par_containers, \* the Docker daemon: containers of start_container
    container_info, \* the record stored under parallel:container:{container_id}
    m_pc,           \* ContainerMonitor._check_container_status: position
    m_keys,         \* _check_container_status: the keys still to visit
    m_key,          \* _check_container_status: the key of this iteration
    m_info          \* _check_container_status: container_info, as read

service_vars == <<repo_dir, extraction_result, output_dir, deliveries,
                  q_pc, q_job_data>>

celery_vars == <<a_pc, a_n, a_i, t_pc, t_job_data, t_use_cases, t_result,
                 service_vars>>

pool_vars == <<p_pc, p_n, p_i, pool_size, redis_client, use_case_queue,
               container_pool, results, completed_count, failed_count,
               containers>>

monitor_vars == <<m_pc, m_keys, m_key, m_info>>

par_vars == <<o_pc, o_n, max_containers, redis_queue, active_containers,
              futures, available_slots, o_completed, o_failed, f_pc, f_result,
              uc_status, par_containers, container_info, monitor_vars>>

vars == <<job, celery_vars, pool_vars, par_vars>>

\* ------------------------------------------------------------- job record
TerminalUseCaseStatus == {"completed", "failed"}

\* the record written by AnalysisService.submit_analysis / initialize_job;
\* error "none" and error_details {} stand for keys that are not there
NewJobData ==
    [status |-> "pending", total_use_cases |-> 0, completed |-> 0,
     failed |-> 0, pending |-> 0, use_cases |-> <<>>, error |-> "none",
     error_details |-> {}]

\* sum(1 for uc in use_cases.values() if uc.get("status") == s)
CountStatus(use_cases, s) ==
    Cardinality({k \in DOMAIN use_cases : use_cases[k].status = s})

Max(a, b) == IF a >= b THEN a ELSE b

Min(a, b) == IF a <= b THEN a ELSE b

\* RedisClient.update_job_field applied to the record it has just read
update_job_field(job_data, field, value) ==
    [job_data EXCEPT ![field] = value]

\* the use-case map analyze_repository builds from the extracted list;
\* the keys are the list indices 0..n-1; data (and the name taken from it)
\* is the extracted item, identified with its position in the list
UseCaseMap(n) == [k \in 0..(n - 1) |-> [status |-> "pending", data |-> k]]

Tasks == 0..(MaxUseCases - 1)

\* ---------------------------------------------------- analyze_repository
\* the content of use_cases.json:
\*   "absent"       the file does not exist
\*   "unparseable"  json.load raises
\*   "not_object"   the top-level value is not an object: data.get raises
\*   "no_key"       an object without the key "use_cases", or whose
\*                  "use_cases" is an empty string or object
\*   "bad_items"    "use_cases" holds n items that are not objects, or
\*                  cannot be enumerated
\*   "valid"        "use_cases" is a list of n objects
\* extraction_error_log is looked at only when use_cases.json is absent
OutputDirs ==
    [use_cases_json : {"absent"}, n : {0}, extraction_error_log : BOOLEAN]
    \cup [use_cases_json : {"unparseable", "not_object", "no_key"}, n : {0},
          extraction_error_log : {FALSE}]
    \cup [use_cases_json : {"bad_items"}, n : 1..MaxUseCases,
          extraction_error_log : {FALSE}]
    \cup [use_cases_json : {"valid"}, n : 0..MaxUseCases,
          extraction_error_log : {FALSE}]

\* the output directory made by os.makedirs (line 53)
EmptyDir ==
    [use_cases_json |-> "absent", n |-> 0, extraction_error_log |-> FALSE]

ReadRaises_AbsentRaises(dir) ==
    dir.use_cases_json \in {"absent", "unparseable", "not_object"}

\* lines 75-89: reading the extracted use cases raises
ReadRaises(dir) ==
    IF dir.use_cases_json = "absent"
    THEN dir.extraction_error_log
    ELSE dir.use_cases_json \in {"unparseable", "not_object"}

\* lines 76-89: len(use_cases) after the read
ReadCount(dir) ==
    IF dir.use_cases_json \in {"valid", "bad_items"} THEN dir.n ELSE 0

MapRaises_Never(dir) == FALSE

\* lines 109-113: uc.get raises for an item that is not an object
MapRaises(dir) == dir.use_cases_json = "bad_items"

\* lines 143-147: the keys of error_info
ErrorInfo == {"error", "error_type", "timestamp"}

\* lines 93-99: the keys of error_details
ErrorDetails ==
    {"error", "error_type", "repo_path", "include_folders", "data_path"}

\* lines 47-59: the directories are made; repo_path, data_path and status
\* "extracting" are written
AnalyzeBegin ==
    /\ a_pc = "start"
    /\ job' = update_job_field(job, "status", "extracting")
    /\ a_pc' = "cloning"
    /\ UNCHANGED <<a_n, a_i, t_pc, t_job_data, t_use_cases, t_result, pool_vars, par_vars, service_vars>>

AnalyzeOuterHandler_OnlyFirstError(job_data, e) ==
    IF job_data.error # "none" THEN job_data
    ELSE update_job_field(
             update_job_field(update_job_field(job_data, "status", "failed"),
                              "error", e),
             "error_details", ErrorInfo)

AnalyzeOuterHandler_KeepsStatus(job_data, e) ==
    update_job_field(update_job_field(job_data, "error", e),
                     "error_details", ErrorInfo)

\* the outer handler of analyze_repository (lines 141-152); e is str(e),
\* named after the call that raised
AnalyzeOuterHandler(job_data, e) ==
    update_job_field(
        update_job_field(update_job_field(job_data, "status", "failed"),
                         "error", e),
        "error_details", ErrorInfo)

\* the inner handler around the extraction (lines 91-104); it re-raises, so
\* the outer handler runs after it
AnalyzeInnerHandler(job_data, e) ==
    update_job_field(
        update_job_field(update_job_field(job_data, "status", "failed"),
                         "error", e),
        "error_details", ErrorDetails)

\* lines 47-53: os.makedirs raises
AnalyzeBeginFail ==
    /\ a_pc = "start"
    /\ job' = AnalyzeOuterHandler(job, "makedirs")
    /\ a_pc' = "raised"
    /\ UNCHANGED <<a_n, a_i, t_pc, t_job_data, t_use_cases, t_result, pool_vars, par_vars, service_vars>>

\* line 62: Repo.clone_from raises (git refuses a directory that is not
\* empty; any other clone error leaves the directory as it was)
AnalyzeCloneFail ==
    /\ a_pc = "cloning"
    /\ job' = AnalyzeOuterHandler(job, "clone_from")
    /\ a_pc' = "raised"
    /\ UNCHANGED <<a_n, a_i, t_pc, t_job_data, t_use_cases, t_result, pool_vars, par_vars, service_vars>>

\* line 62: Repo.clone_from returns
AnalyzeCloneOk ==
    /\ a_pc = "cloning"
    /\ repo_dir = "empty"
    /\ repo_dir' = "cloned"
    /\ a_pc' = "extracting"
    /\ UNCHANGED <<job, a_n, a_i, t_pc, t_job_data, t_use_cases, t_result,
                   extraction_result, output_dir, deliveries, q_pc,
                   q_job_data, pool_vars, par_vars>>

\* lines 67-87: the exception the inner handler catches
ExtractionError(returned, dir) ==
    IF ~returned THEN "extract_use_cases"
    ELSE IF dir.use_cases_json = "absent" THEN "extraction_error_log"
    ELSE "use_cases_json"

\* lines 66-104: extract_use_cases raises (returned = FALSE), or it returns
\* and reading use_cases.json raises; dir is what the extraction left in
\* the output directory; the inner handler raises RuntimeError(str(e))
AnalyzeExtractFail(returned, dir) ==
    /\ a_pc = "extracting"
    /\ ~returned \/ ReadRaises(dir)
    /\ extraction_result' = IF returned THEN "completed" ELSE "raised"
    /\ output_dir' = dir
    /\ job' = LET e == ExtractionError(returned, dir)
              IN  AnalyzeOuterHandler(AnalyzeInnerHandler(job, e), e)
    /\ a_pc' = "raised"
    /\ UNCHANGED <<a_n, a_i, t_pc, t_job_data, t_use_cases, t_result,
                   repo_dir, deliveries, q_pc, q_job_data, pool_vars, par_vars>>

\* lines 106-117: the use-case map and the counters are stored
StoreUseCases(job_data, n) ==
    [job_data EXCEPT !.use_cases = UseCaseMap(n),
                     !.total_use_cases = n,
                     !.pending = n,
                     !.status = "queued"]

\* lines 107-113: the use cases were read, building the map raises
AnalyzeMapFail(dir) ==
    /\ a_pc = "extracting"
    /\ ~ReadRaises(dir)
    /\ MapRaises(dir)
    /\ extraction_result' = "completed"
    /\ output_dir' = dir
    /\ job' = AnalyzeOuterHandler(job, "use_cases_items")
    /\ a_pc' = "raised"
    /\ UNCHANGED <<a_n, a_i, t_pc, t_job_data, t_use_cases, t_result,
                   repo_dir, deliveries, q_pc, q_job_data, pool_vars, par_vars>>

\* lines 66-89 and 106-117: extract_use_cases returns, len(use_cases) use
\* cases are read and stored
AnalyzeExtractOk(dir) ==
    /\ a_pc = "extracting"
    /\ ~ReadRaises(dir)
    /\ ~MapRaises(dir)
    /\ extraction_result' = "completed"
    /\ output_dir' = dir
    /\ job' = StoreUseCases(job, ReadCount(dir))
    /\ a_n' = ReadCount(dir)
    /\ a_i' = 0
    /\ a_pc' = "dispatch"
    /\ UNCHANGED <<t_pc, t_job_data, t_use_cases, t_result, repo_dir,
                   deliveries, q_pc, q_job_data, pool_vars, par_vars>>

\* lines 120-128: execute_single_use_case.delay for use case a_i
AnalyzeDispatch ==
    /\ a_pc = "dispatch"
    /\ a_i < a_n
    /\ t_pc' = [t_pc EXCEPT ![a_i] = "queued"]
    /\ a_i' = a_i + 1
    /\ UNCHANGED <<job, a_pc, a_n, t_job_data, t_use_cases, t_result, pool_vars, par_vars, service_vars>>

\* lines 130-139
AnalyzeReturn ==
    /\ a_pc = "dispatch"
    /\ a_i = a_n
    /\ a_pc' = "returned"
    /\ UNCHANGED <<job, a_n, a_i, t_pc, t_job_data, t_use_cases, t_result, pool_vars, par_vars, service_vars>>

\* ----------------------------------------------- execute_single_use_case
\* a map that holds the own entry only
MarkRunning_OwnEntryOnly(use_cases, i) ==
    [k \in {i} \cap DOMAIN use_cases |-> [use_cases[k] EXCEPT !.status = "running"]]

\* lines 171-175: read the record and mark the own entry running
MarkRunning(use_cases, i) ==
    IF i \in DOMAIN use_cases
    THEN [use_cases EXCEPT ![i] = [@ EXCEPT !.status = "running"]]
    ELSE use_cases

TaskReadForRunning(i) ==
    /\ t_pc[i] = "queued"
    /\ t_use_cases' = [t_use_cases EXCEPT ![i] = MarkRunning(job.use_cases, i)]
    /\ t_pc' = [t_pc EXCEPT ![i] =
                   IF i \in DOMAIN job.use_cases THEN "field_read" ELSE "execute"]
    /\ UNCHANGED <<job, a_pc, a_n, a_i, t_job_data, t_result, pool_vars, par_vars, service_vars>>

\* line 176, first half of update_job_field: get_job (redis_client.py 104)
TaskFieldRead(i) ==
    /\ t_pc[i] = "field_read"
    /\ t_job_data' = [t_job_data EXCEPT ![i] = job]
    /\ t_pc' = [t_pc EXCEPT ![i] = "field_write"]
    /\ UNCHANGED <<job, a_pc, a_n, a_i, t_use_cases, t_result, pool_vars, par_vars, service_vars>>

\* line 176, second half of update_job_field: set (redis_client.py 118-124)
TaskFieldWrite(i) ==
    /\ t_pc[i] = "field_write"
    /\ job' = update_job_field(t_job_data[i], "use_cases", t_use_cases[i])
    /\ t_job_data' = [t_job_data EXCEPT ![i] = NewJobData]
    /\ t_use_cases' = [t_use_cases EXCEPT ![i] = <<>>]
    /\ t_pc' = [t_pc EXCEPT ![i] = "execute"]
    /\ UNCHANGED <<a_pc, a_n, a_i, t_result, pool_vars, par_vars, service_vars>>

\* lines 178-192: update_state and the container run; exit_code is 0 or 1
TaskExecute(i, exit_code) ==
    /\ t_pc[i] = "execute"
    /\ t_result' = [t_result EXCEPT ![i] = exit_code]
    /\ t_pc' = [t_pc EXCEPT ![i] = "result_read"]
    /\ UNCHANGED <<job, a_pc, a_n, a_i, t_job_data, t_use_cases, pool_vars, par_vars, service_vars>>

\* lines 178-184: update_state or DockerRunner() raises
TaskExecuteRaises(i) ==
    /\ t_pc[i] = "execute"
    /\ t_pc' = [t_pc EXCEPT ![i] = "except_read"]
    /\ UNCHANGED <<job, a_pc, a_n, a_i, t_job_data, t_use_cases, t_result, pool_vars, par_vars, service_vars>>

\* line 195
TaskResultRead(i) ==
    /\ t_pc[i] = "result_read"
    /\ t_job_data' = [t_job_data EXCEPT ![i] = job]
    /\ t_pc' = [t_pc EXCEPT ![i] = "result_write"]
    /\ UNCHANGED <<job, a_pc, a_n, a_i, t_use_cases, t_result, pool_vars, par_vars, service_vars>>

\* line 200
ResultStatus(exit_code) == IF exit_code = 0 THEN "completed" ELSE "failed"

\* lines 216-217
StatusAfterResult(job_data) ==
    IF job_data.pending = 0 THEN "completed" ELSE job_data.status

\* lines 196-217: the record execute_single_use_case stores for a result
WithResult(job_data, i, exit_code) ==
    LET use_cases == [job_data.use_cases EXCEPT
                         ![i] = [@ EXCEPT !.status = ResultStatus(exit_code)]]
        completed == CountStatus(use_cases, "completed")
        failed    == CountStatus(use_cases, "failed")
        counted   == [job_data EXCEPT
                         !.use_cases = use_cases,
                         !.completed = completed,
                         !.failed = failed,
                         !.pending = job_data.total_use_cases - completed - failed]
    IN  [counted EXCEPT !.status = StatusAfterResult(counted)]

\* lines 198-219
TaskResultWrite(i) ==
    /\ t_pc[i] = "result_write"
    /\ job' = IF i \in DOMAIN t_job_data[i].use_cases
              THEN WithResult(t_job_data[i], i, t_result[i])
              ELSE job
    /\ t_job_data' = [t_job_data EXCEPT ![i] = NewJobData]
    /\ t_pc' = [t_pc EXCEPT ![i] = "returned"]
    /\ UNCHANGED <<a_pc, a_n, a_i, t_use_cases, t_result, pool_vars, par_vars, service_vars>>

\* line 237
TaskExceptRead(i) ==
    /\ t_pc[i] = "except_read"
    /\ t_job_data' = [t_job_data EXCEPT ![i] = job]
    /\ t_pc' = [t_pc EXCEPT ![i] = "except_write"]
    /\ UNCHANGED <<job, a_pc, a_n, a_i, t_use_cases, t_result, pool_vars, par_vars, service_vars>>

WithException_FailsJob(job_data, i) ==
    LET pending == Max(0, job_data.pending - 1)
    IN  [job_data EXCEPT
            !.use_cases = [@ EXCEPT ![i] = [@ EXCEPT !.status = "failed"]],
            !.failed = job_data.failed + 1,
            !.pending = pending,
            !.status = IF pending = 0 THEN "completed" ELSE "failed"]

\* lines 238-249: the record execute_single_use_case stores for an exception
WithException(job_data, i) ==
    LET pending == Max(0, job_data.pending - 1)
    IN  [job_data EXCEPT
            !.use_cases = [@ EXCEPT ![i] = [@ EXCEPT !.status = "failed"]],
            !.failed = job_data.failed + 1,
            !.pending = pending,
            !.status = IF pending = 0 THEN "completed" ELSE "processing"]

\* lines 240-257
TaskExceptWrite(i) ==
    /\ t_pc[i] = "except_write"
    /\ job' = IF i \in DOMAIN t_job_data[i].use_cases
              THEN WithException(t_job_data[i], i)
              ELSE job
    /\ t_job_data' = [t_job_data EXCEPT ![i] = NewJobData]
    /\ t_pc' = [t_pc EXCEPT ![i] = "raised"]
    /\ UNCHANGED <<a_pc, a_n, a_i, t_use_cases, t_result, pool_vars, par_vars, service_vars>>

\* ------------------------------------- AnalysisService.get_job_status
\* models/analysis.py: the values of the enum AnalysisStatus
AnalysisStatus ==
    {"pending", "processing", "cloning", "extracting", "extracting_use_cases",
     "executing", "completed", "completed_with_errors", "failed",
     "extraction_failed", "timeout"}

\* lines 173-176: AsyncResult(str(job_id)).ready(); submit_analysis sends the
\* analysis task of the job with task_id = str(job_id) (lines 132-142)
TaskReady == a_pc \in {"returned", "raised"}

\* line 177: task.successful()
TaskSuccessful == a_pc = "returned"

\* line 171: the query goes on to look at the Celery task
QueryLooksAtTask(job_data) ==
    /\ job_data.status \in AnalysisStatus
    /\ job_data.status \in {"pending", "processing"}

\* lines 151-176: get_job, AnalysisStatus(status) (ValueError for a status
\* that is not in the enum), and the look at the Celery task; the query
\* returns or raises here unless the task is ready
GetJobStatusRead ==
    /\ q_pc # "store"
    /\ IF job.status \notin AnalysisStatus
       THEN /\ q_pc' = "raised"
            /\ UNCHANGED q_job_data
       ELSE IF QueryLooksAtTask(job) /\ TaskReady
       THEN /\ q_pc' = "store"
            /\ q_job_data' = job
       ELSE /\ q_pc' = "returned"
            /\ UNCHANGED q_job_data
    /\ UNCHANGED <<job, a_pc, a_n, a_i, t_pc, t_job_data, t_use_cases, t_result,
                   repo_dir, extraction_result, output_dir, deliveries,
                   pool_vars, par_vars>>

\* lines 184-187 and 195-199: job_data.update(...)
WithTaskOutcome(job_data, successful) ==
    IF successful
    THEN [job_data EXCEPT !.status = "completed"]
    ELSE [job_data EXCEPT !.status = "failed", !.error = "task_result"]

\* lines 177-200: the record read at line 151 is stored with the new status
GetJobStatusStore ==
    /\ q_pc = "store"
    /\ job' = WithTaskOutcome(q_job_data, TaskSuccessful)
    /\ q_pc' = "returned"
    /\ q_job_data' = NewJobData
    /\ UNCHANGED <<a_pc, a_n, a_i, t_pc, t_job_data, t_use_cases, t_result,
                   repo_dir, extraction_result, output_dir, deliveries,
                   pool_vars, par_vars>>

\* ------------------------------------------------------------ redelivery
\* celery_app.py line 30: task_acks_late; the worker running
\* analyze_repository is lost before the task ends, the message was not
\* acknowledged and the task is delivered again. A worker lost while cloning
\* may leave a partial clone behind.
AnalyzeRedelivered(partial_clone) ==
    /\ a_pc \in {"cloning", "extracting", "dispatch"}
    /\ deliveries < MaxDeliveries
    /\ deliveries' = deliveries + 1
    /\ repo_dir' = IF a_pc = "cloning" /\ partial_clone THEN "cloned" ELSE repo_dir
    /\ a_pc' = "start"
    /\ a_n' = 0
    /\ a_i' = 0
    /\ UNCHANGED <<job, t_pc, t_job_data, t_use_cases, t_result,
                   extraction_result, output_dir, q_pc, q_job_data,
                   pool_vars, par_vars>>

\* RedisClient.initialize_job (redis_client.py lines 131-176) applied to the
\* job id once more
InitializeJob ==
    /\ job' = NewJobData
    /\ UNCHANGED <<celery_vars, pool_vars, par_vars>>

\* ----------------------------------------------------- store unreachable
\* RedisClient catches RedisError: get_job returns None, store_job and
\* update_job_field return False (redis_client.py lines 62-64, 84-86 and
\* 127-129). The actions below are the steps of the tasks during which Redis
\* is unreachable.

\* tasks.py lines 47-59: the three update_job_field calls return False, the
\* task goes on to the clone
AnalyzeBeginUnreachable ==
    /\ a_pc = "start"
    /\ a_pc' = "cloning"
    /\ UNCHANGED <<job, a_n, a_i, t_pc, t_job_data, t_use_cases, t_result,
                   pool_vars, par_vars, service_vars>>

\* tasks.py lines 66-89 and 106-117: the use cases are read, get_job returns
\* None, `if job_data` skips the store, and the task goes on to the dispatch
AnalyzeStoreUnreachable(dir) ==
    /\ a_pc = "extracting"
    /\ ~ReadRaises(dir)
    /\ extraction_result' = "completed"
    /\ output_dir' = dir
    /\ a_n' = ReadCount(dir)
    /\ a_i' = 0
    /\ a_pc' = "dispatch"
    /\ UNCHANGED <<job, t_pc, t_job_data, t_use_cases, t_result, repo_dir,
                   deliveries, q_pc, q_job_data, pool_vars, par_vars>>

\* tasks.py lines 195-196: get_job returns None, job_data is {} and has no
\* use cases
TaskResultUnreachable(i) ==
    /\ t_pc[i] = "result_read"
    /\ t_job_data' = [t_job_data EXCEPT ![i] = NewJobData]
    /\ t_pc' = [t_pc EXCEPT ![i] = "result_write"]
    /\ UNCHANGED <<job, a_pc, a_n, a_i, t_use_cases, t_result, pool_vars,
                   par_vars, service_vars>>

\* tasks.py line 176 and redis_client.py lines 104-116: the get_job of
\* update_job_field returns None (RedisError or JSONDecodeError, lines
\* 84-89) and update_job_field goes on with a new default record
TaskFieldReadUnreachable(i) ==
    /\ t_pc[i] = "field_read"
    /\ t_job_data' = [t_job_data EXCEPT ![i] = NewJobData]
    /\ t_pc' = [t_pc EXCEPT ![i] = "field_write"]
    /\ UNCHANGED <<job, a_pc, a_n, a_i, t_use_cases, t_result, pool_vars,
                   par_vars, service_vars>>

\* ------------------------------------------------------------ SpecCelery
\* get_job_status has not been called
QueryIdle ==
    /\ q_pc = "idle"
    /\ q_job_data = NewJobData

\* execute_use_cases_with_pool has not been called
PoolIdle ==
    /\ p_pc = "idle"
    /\ p_n = 0
    /\ p_i = 0
    /\ pool_size = 1
    /\ redis_client = FALSE
    /\ use_case_queue = <<>>
    /\ container_pool = <<>>
    /\ results = <<>>
    /\ completed_count = 0
    /\ failed_count = 0
    /\ containers = [i \in 0..(MaxPoolUseCases - 1) |-> "none"]

ParUseCases == 0..(MaxParUseCases - 1)

\* the value of a future that has not produced a result
NoResult == [exit_code |-> 0, error |-> "none"]

\* no record under parallel:container:{container_id}
NoContainerInfo ==
    [status |-> "none", exit_code |-> {}, completed_at |-> FALSE,
     last_check |-> FALSE]

\* no container record is stored and the monitor is between two passes
MonitorIdle ==
    /\ container_info = [i \in ParUseCases |-> NoContainerInfo]
    /\ m_pc = "sleep"
    /\ m_keys = {}
    /\ m_key = 0
    /\ m_info = NoContainerInfo

\* execute_job_parallel has not been called
ParIdle ==
    /\ o_pc = "idle"
    /\ o_n = 0
    /\ max_containers = 1
    /\ redis_queue = <<>>
    /\ active_containers = {}
    /\ futures = {}
    /\ available_slots = 0
    /\ o_completed = 0
    /\ o_failed = 0
    /\ f_pc = [i \in ParUseCases |-> "none"]
    /\ f_result = [i \in ParUseCases |-> NoResult]
    /\ uc_status = [i \in ParUseCases |-> "none"]
    /\ par_containers = [i \in ParUseCases |-> "none"]
    /\ MonitorIdle

InitCelery ==
    /\ PoolIdle
    /\ ParIdle
    /\ job = NewJobData
    /\ a_pc = "start"
    /\ a_n = 0
    /\ a_i = 0
    /\ t_pc = [i \in Tasks |-> "none"]
    /\ t_job_data = [i \in Tasks |-> NewJobData]
    /\ t_use_cases = [i \in Tasks |-> <<>>]
    /\ t_result = [i \in Tasks |-> 0]
    /\ repo_dir = "empty"
    /\ extraction_result = "none"
    /\ output_dir = EmptyDir
    /\ deliveries = 1
    /\ QueryIdle

NextCelery ==
    \/ AnalyzeBegin
    \/ AnalyzeBeginFail
    \/ AnalyzeCloneFail
    \/ AnalyzeCloneOk
    \/ \E returned \in BOOLEAN, dir \in OutputDirs :
          AnalyzeExtractFail(returned, dir)
    \/ \E dir \in OutputDirs : AnalyzeMapFail(dir)
    \/ \E dir \in OutputDirs : AnalyzeExtractOk(dir)
    \/ AnalyzeDispatch
    \/ AnalyzeReturn
    \/ \E i \in Tasks : TaskReadForRunning(i)
    \/ \E i \in Tasks : TaskFieldRead(i)
    \/ \E i \in Tasks : TaskFieldWrite(i)
    \/ \E i \in Tasks, exit_code \in {0, 1} : TaskExecute(i, exit_code)
    \/ \E i \in Tasks : TaskExecuteRaises(i)
    \/ \E i \in Tasks : TaskResultRead(i)
    \/ \E i \in Tasks : TaskResultWrite(i)
    \/ \E i \in Tasks : TaskExceptRead(i)
    \/ \E i \in Tasks : TaskExceptWrite(i)

SpecCelery == InitCelery /\ [][NextCelery]_vars

\* the tasks of a job together with status queries of the API
NextService == NextCelery \/ GetJobStatusRead \/ GetJobStatusStore

SpecService == InitCelery /\ [][NextService]_vars

\* the tasks of a job when Redis can be unreachable
NextUnreachable ==
    \/ NextCelery
    \/ AnalyzeBeginUnreachable
    \/ \E dir \in OutputDirs : AnalyzeStoreUnreachable(dir)
    \/ \E i \in Tasks : TaskResultUnreachable(i)
    \/ \E i \in Tasks : TaskFieldReadUnreachable(i)

SpecUnreachable == InitCelery /\ [][NextUnreachable]_vars

\* the tasks of a job when the analysis message can be delivered again and
\* initialize_job can be applied again
NextRedelivery ==
    \/ NextCelery
    \/ \E partial_clone \in BOOLEAN : AnalyzeRedelivered(partial_clone)
    \/ InitializeJob

SpecRedelivery == InitCelery /\ [][NextRedelivery]_vars

\* ------------------------------------- AnalysisService.submit_analysis
\* the store holds no key job:{job_id}
NoJob == [NewJobData EXCEPT !.status = "absent"]

\* store_job returned True and the call goes on
SubmitAfterStore_IgnoresFailure(stored) == "stored"

\* lines 117-121: RuntimeError when store_job returned False
SubmitAfterStore(stored) == IF stored THEN "stored" ELSE "submit_raised"

\* lines 84-121 and redis_client.py lines 44-64: the record is built and
\* store_job writes it, or catches RedisError and returns False
SubmitStore(stored) ==
    /\ a_pc = "submit"
    /\ job' = IF stored THEN NewJobData ELSE job
    /\ a_pc' = SubmitAfterStore(stored)
    /\ UNCHANGED <<a_n, a_i, t_pc, t_job_data, t_use_cases, t_result,
                   pool_vars, par_vars, service_vars>>

\* lines 123-129: linking the job to the user or the project raises
SubmitLinkRaises ==
    /\ a_pc = "stored"
    /\ a_pc' = "submit_raised"
    /\ UNCHANGED <<job, a_n, a_i, t_pc, t_job_data, t_use_cases, t_result,
                   pool_vars, par_vars, service_vars>>

\* lines 131-147: send_task with task_id = job_id when Celery could be
\* imported, then return job_id; the worker can now start the task
SubmitSend(celery_available) ==
    /\ a_pc = "stored"
    /\ a_pc' = IF celery_available THEN "start" ELSE "submitted"
    /\ UNCHANGED <<job, a_n, a_i, t_pc, t_job_data, t_use_cases, t_result,
                   pool_vars, par_vars, service_vars>>

\* submit_analysis is called for a new job id
InitSubmit ==
    /\ PoolIdle
    /\ ParIdle
    /\ job = NoJob
    /\ a_pc = "submit"
    /\ a_n = 0
    /\ a_i = 0
    /\ t_pc = [i \in Tasks |-> "none"]
    /\ t_job_data = [i \in Tasks |-> NewJobData]
    /\ t_use_cases = [i \in Tasks |-> <<>>]
    /\ t_result = [i \in Tasks |-> 0]
    /\ repo_dir = "empty"
    /\ extraction_result = "none"
    /\ output_dir = EmptyDir
    /\ deliveries = 1
    /\ QueryIdle

NextSubmit ==
    \/ \E stored \in BOOLEAN : SubmitStore(stored)
    \/ SubmitLinkRaises
    \/ \E celery_available \in BOOLEAN : SubmitSend(celery_available)
    \/ NextCelery

\* a submission and the tasks it starts
SpecSubmit == InitSubmit /\ [][NextSubmit]_vars

\* ------------------------------------- DockerRunner.execute_use_cases_with_pool
\* the container of use case i is identified with i; a container is
\*   "none"          not created
\*   "start_failed"  containers.run raised in _start_use_case_container
\*   "running"       running, within its time budget
\*   "overrun"       still running after its time budget
\*   "exited0", "exited1"   exited with exit code 0, with another exit code
\*   "removed"       removed after its result was collected, or by the
\*                   forced cleanup
\*   "remove_failed" the forced cleanup could not remove it
ExitedStates == {"exited0", "exited1"}

\* container.status is "running"
RunningStates == {"running", "overrun"}

PoolUseCases == 0..(MaxPoolUseCases - 1)

\* the elements of a sequence
Range(seq) == {seq[k] : k \in DOMAIN seq}

\* line 255
InitialBatch == Min(pool_size, p_n)

\* line 288: while container_pool or use_case_queue
LoopCondition_PoolOnly == container_pool # <<>>

LoopCondition == container_pool # <<>> \/ use_case_queue # <<>>

\* line 382: len(container_pool) < pool_size and use_case_queue
BackfillCondition_NoBound == use_case_queue # <<>>

BackfillCondition ==
    Len(container_pool) < pool_size /\ use_case_queue # <<>>

\* _update_use_case_status (lines 499-540): get_job, change the entry of
\* the use case, update_job_field("use_cases", ...)
UpdateUseCaseStatus(job_data, i, status) ==
    IF i \in DOMAIN job_data.use_cases
    THEN update_job_field(job_data, "use_cases",
             [job_data.use_cases EXCEPT ![i] = [@ EXCEPT !.status = status]])
    ELSE job_data

\* the status updates of the pool left out
PoolUpdate_Skipped(job_data, i, status) == job_data

\* lines 276-278, 328-343, 371-375, 399-401: only when a redis_client was passed
PoolUpdate(job_data, i, status) ==
    IF redis_client THEN UpdateUseCaseStatus(job_data, i, status) ELSE job_data

\* lines 259-282 and 383-405: dequeue the next use case and start its
\* container; started is the outcome of _start_use_case_container
StartNext(started) ==
    LET use_case_index == Head(use_case_queue) IN
    /\ use_case_queue' = Tail(use_case_queue)
    /\ IF started
       THEN /\ containers' = [containers EXCEPT ![use_case_index] = "running"]
            /\ container_pool' = Append(container_pool, use_case_index)
            /\ job' = PoolUpdate(job, use_case_index, "running")
       ELSE /\ containers' = [containers EXCEPT ![use_case_index] = "start_failed"]
            /\ UNCHANGED <<container_pool, job>>

\* lines 258-282: one iteration of the initial batch
PoolInitialStart(started) ==
    /\ p_pc = "initial"
    /\ p_i < InitialBatch
    /\ StartNext(started)
    /\ p_i' = p_i + 1
    /\ UNCHANGED <<p_pc, p_n, pool_size, redis_client, results,
                   completed_count, failed_count, celery_vars, par_vars>>

\* line 284: the initial batch is over
PoolInitialDone ==
    /\ p_pc = "initial"
    /\ p_i = InitialBatch
    /\ p_pc' = "loop"
    /\ UNCHANGED <<job, p_n, p_i, pool_size, redis_client, use_case_queue,
                   container_pool, results, completed_count, failed_count,
                   containers, celery_vars, par_vars>>

CollectStatus_IgnoresExitCode(state, collect_error) ==
    IF ~collect_error THEN "completed" ELSE "failed"

\* lines 475-497: the status _collect_container_result gives a container that
\* has exited; collect_error: reading the exit code or the logs raised
CollectStatus(state, collect_error) ==
    IF state = "exited0" /\ ~collect_error THEN "completed" ELSE "failed"

\* lines 311-375: the result of one container of the pool in a poll, or <<>>
\* when the container is still running
PollResult(i, reload_errors, collect_errors) ==
    IF i \in reload_errors
    THEN <<[use_case_index |-> i, status |-> "failed", error |-> "exception"]>>
    ELSE IF containers[i] \in ExitedStates
    THEN <<[use_case_index |-> i,
            status |-> CollectStatus(containers[i], i \in collect_errors),
            error |-> IF i \in collect_errors THEN "exception" ELSE "none"]>>
    ELSE <<>>

\* lines 311-375: the results appended by the for loop over container_pool,
\* in the order of the dict
RECURSIVE PollResults(_, _, _)
PollResults(pool, reload_errors, collect_errors) ==
    IF pool = <<>> THEN <<>>
    ELSE PollResult(Head(pool), reload_errors, collect_errors)
           \o PollResults(Tail(pool), reload_errors, collect_errors)

\* lines 377-379: del container_pool[container_id] for the completed ones
RemoveCompleted(pool, completed_containers) ==
    SelectSeq(pool, LAMBDA i : i \notin completed_containers)

\* the statuses written to the use-case map for a list of results
RECURSIVE PoolUpdateAll(_, _)
PoolUpdateAll(job_data, new_results) ==
    IF new_results = <<>> THEN job_data
    ELSE PoolUpdateAll(PoolUpdate(job_data, Head(new_results).use_case_index,
                                  Head(new_results).status),
                       Tail(new_results))

CountResults(new_results, status) ==
    Cardinality({k \in DOMAIN new_results : new_results[k].status = status})

\* lines 288-379: the loop condition holds; every container of the pool is
\* reloaded, the finished ones are collected, recorded and removed
PoolPoll(reload_errors, collect_errors) ==
    /\ p_pc = "loop"
    /\ LoopCondition
    /\ reload_errors \subseteq Range(container_pool)
    /\ collect_errors \subseteq
          {i \in Range(container_pool) \ reload_errors : containers[i] \in ExitedStates}
    /\ LET new_results == PollResults(container_pool, reload_errors, collect_errors)
           completed_containers == {new_results[k].use_case_index : k \in DOMAIN new_results}
       IN  /\ results' = results \o new_results
           /\ completed_count' = completed_count + CountResults(new_results, "completed")
           /\ failed_count' = failed_count + CountResults(new_results, "failed")
           /\ job' = PoolUpdateAll(job, new_results)
           /\ containers' = [i \in DOMAIN containers |->
                                IF i \in completed_containers \ reload_errors
                                THEN "removed" ELSE containers[i]]
           /\ container_pool' = RemoveCompleted(container_pool, completed_containers)
    /\ p_pc' = "backfill"
    /\ UNCHANGED <<p_n, p_i, pool_size, redis_client, use_case_queue,
                   celery_vars, par_vars>>

\* lines 382-405: one iteration of the backfill loop
PoolBackfillStart(started) ==
    /\ p_pc = "backfill"
    /\ BackfillCondition
    /\ StartNext(started)
    /\ UNCHANGED <<p_pc, p_n, p_i, pool_size, redis_client, results,
                   completed_count, failed_count, celery_vars, par_vars>>

\* lines 407-410 without the loop condition of line 382: the iteration may
\* go to sleep before the backfill loop has run out
PoolBackfillDone_Early ==
    /\ p_pc = "backfill"
    /\ p_pc' = IF container_pool # <<>> THEN "sleep" ELSE "loop"
    /\ UNCHANGED <<job, p_n, p_i, pool_size, redis_client, use_case_queue,
                   container_pool, results, completed_count, failed_count,
                   containers, celery_vars, par_vars>>

\* lines 407-410: the backfill loop is over; sleep only with running containers
PoolBackfillDone ==
    /\ p_pc = "backfill"
    /\ ~BackfillCondition
    /\ p_pc' = IF container_pool # <<>> THEN "sleep" ELSE "loop"
    /\ UNCHANGED <<job, p_n, p_i, pool_size, redis_client, use_case_queue,
                   container_pool, results, completed_count, failed_count,
                   containers, celery_vars, par_vars>>

\* line 410: time.sleep(10) returns
PoolSleep ==
    /\ p_pc = "sleep"
    /\ p_pc' = "loop"
    /\ UNCHANGED <<job, p_n, p_i, pool_size, redis_client, use_case_queue,
                   container_pool, results, completed_count, failed_count,
                   containers, celery_vars, par_vars>>

\* results.sort(key=lambda x: x.get("use_case_index", 0)): a stable sort
RECURSIVE InsertByIndex(_, _)
InsertByIndex(sorted, r) ==
    IF sorted = <<>> THEN <<r>>
    ELSE IF r.use_case_index < Head(sorted).use_case_index
    THEN <<r>> \o sorted
    ELSE <<Head(sorted)>> \o InsertByIndex(Tail(sorted), r)

RECURSIVE SortByIndex(_)
SortByIndex(seq) ==
    IF seq = <<>> THEN <<>>
    ELSE InsertByIndex(SortByIndex(SubSeq(seq, 1, Len(seq) - 1)), seq[Len(seq)])

\* lines 412-417: the loop condition is false; sort and return
PoolReturn ==
    /\ p_pc = "loop"
    /\ ~LoopCondition
    /\ results' = SortByIndex(results)
    /\ p_pc' = "done"
    /\ UNCHANGED <<job, p_n, p_i, pool_size, redis_client, use_case_queue,
                   container_pool, completed_count, failed_count,
                   containers, celery_vars, par_vars>>

ForcedCleanup_StopsAtError(pool, remove_errors) ==
    [i \in DOMAIN containers |->
        IF i \in remove_errors THEN "remove_failed"
        ELSE IF i \in Range(pool) /\ remove_errors = {} THEN "removed"
        ELSE containers[i]]

\* lines 424-429: remove(force=True) is called on every container of the
\* pool; a removal that raises (remove_errors) is passed over and leaves the
\* container "remove_failed"
ForcedCleanup(pool, remove_errors) ==
    [i \in DOMAIN containers |->
        IF i \notin Range(pool) THEN containers[i]
        ELSE IF i \in remove_errors THEN "remove_failed"
        ELSE "removed"]

\* lines 419-430: an exception escapes the body at the head of a poll
\* (task_context.update_state, line 296); forced removal of the containers
\* of the pool, then RuntimeError
PoolFatal(remove_errors) ==
    /\ p_pc = "loop"
    /\ LoopCondition
    /\ remove_errors \subseteq Range(container_pool)
    /\ containers' = ForcedCleanup(container_pool, remove_errors)
    /\ p_pc' = "raised"
    /\ UNCHANGED <<job, p_n, p_i, pool_size, redis_client, use_case_queue,
                   container_pool, results, completed_count, failed_count,
                   celery_vars, par_vars>>

\* lines 259-270 / 383-394 and 419-430: a use case is dequeued, its container
\* is started, and client.containers.get raises before the container is put
\* in the pool; forced removal of the containers of the pool, then
\* RuntimeError
PoolStartFatal(remove_errors) ==
    /\ \/ p_pc = "initial" /\ p_i < InitialBatch
       \/ p_pc = "backfill" /\ BackfillCondition
    /\ remove_errors \subseteq Range(container_pool)
    /\ use_case_queue' = Tail(use_case_queue)
    /\ containers' = [ForcedCleanup(container_pool, remove_errors)
                         EXCEPT ![Head(use_case_queue)] = "running"]
    /\ p_pc' = "raised"
    /\ UNCHANGED <<job, p_n, p_i, pool_size, redis_client, container_pool,
                   results, completed_count, failed_count, celery_vars,
                   par_vars>>

\* the container of use case i exits with exit code 0 (code = 0) or not
ContainerExit(i, code) ==
    /\ containers[i] \in RunningStates
    /\ containers' = [containers EXCEPT ![i] = IF code = 0 THEN "exited0" ELSE "exited1"]
    /\ UNCHANGED <<job, p_pc, p_n, p_i, pool_size, redis_client, use_case_queue,
                   container_pool, results, completed_count, failed_count,
                   celery_vars, par_vars>>

\* the container of use case i is still running when its time budget ends
ContainerExceedsBudget(i) ==
    /\ containers[i] = "running"
    /\ containers' = [containers EXCEPT ![i] = "overrun"]
    /\ UNCHANGED <<job, p_pc, p_n, p_i, pool_size, redis_client, use_case_queue,
                   container_pool, results, completed_count, failed_count,
                   celery_vars, par_vars>>

\* execute_single_use_case and analyze_repository are not running
CeleryIdle ==
    /\ a_pc = "idle"
    /\ a_n = 0
    /\ a_i = 0
    /\ t_pc = [i \in Tasks |-> "none"]
    /\ t_job_data = [i \in Tasks |-> NewJobData]
    /\ t_use_cases = [i \in Tasks |-> <<>>]
    /\ t_result = [i \in Tasks |-> 0]
    /\ repo_dir = "cloned"
    /\ extraction_result = "completed"
    /\ deliveries = 1
    /\ QueryIdle

\* lines 216-241: the call, for a job whose use-case map has been stored
InitPool ==
    /\ CeleryIdle
    /\ ParIdle
    /\ p_n \in 0..MaxPoolUseCases
    /\ pool_size \in 1..MaxPoolSize
    /\ redis_client \in BOOLEAN
    /\ job = StoreUseCases(NewJobData, p_n)
    /\ output_dir = [use_cases_json |-> "valid", n |-> p_n,
                     extraction_error_log |-> FALSE]
    /\ p_pc = "initial"
    /\ p_i = 0
    /\ use_case_queue = [k \in 1..p_n |-> k - 1]
    /\ container_pool = <<>>
    /\ results = <<>>
    /\ completed_count = 0
    /\ failed_count = 0
    /\ containers = [i \in PoolUseCases |-> "none"]

\* the steps of execute_use_cases_with_pool itself
PoolManagerNext ==
    \/ \E started \in BOOLEAN : PoolInitialStart(started)
    \/ PoolInitialDone
    \/ \E reload_errors, collect_errors \in SUBSET PoolUseCases :
          PoolPoll(reload_errors, collect_errors)
    \/ \E started \in BOOLEAN : PoolBackfillStart(started)
    \/ PoolBackfillDone
    \/ PoolSleep
    \/ PoolReturn
    \/ \E remove_errors \in SUBSET PoolUseCases : PoolFatal(remove_errors)
    \/ \E remove_errors \in SUBSET PoolUseCases : PoolStartFatal(remove_errors)

\* the containers
ContainerNext ==
    \/ \E i \in PoolUseCases, code \in {0, 1} : ContainerExit(i, code)
    \/ \E i \in PoolUseCases : ContainerExceedsBudget(i)

NextPool == PoolManagerNext \/ ContainerNext

SpecPool == InitPool /\ [][NextPool]_vars

\* line 219: the call without a redis_client, which leaves the job record alone
InitPoolLocal == InitPool /\ ~redis_client

SpecPoolLocal == InitPoolLocal /\ [][NextPool]_vars

InitPoolFair == InitPool /\ p_n <= MaxFairUseCases

\* the polling loop is a thread that keeps running
SpecPoolFair == InitPoolFair /\ [][NextPool]_vars /\ WF_vars(PoolManagerNext)

\* ----------------------- ParallelDockerExecutor and UseCaseOrchestrator
\* the container (and the future) of use case i is identified with i; a
\* container of start_container is "none", "running", "overrun" (still
\* running when the timeout of wait_for_container_completion has passed),
\* "exited0", "exited1", "removed" or "killed"

\* redis LPUSH key v1 v2 ...: each value in turn becomes the new head
RECURSIVE LPush(_, _)
LPush(list, values) ==
    IF values = <<>> THEN list
    ELSE LPush(<<Head(values)>> \o list, Tail(values))

RPopValue_Head(list) == list[1]

\* redis RPOP: the last element of the list
RPopValue(list) == list[Len(list)]

RPopRest_Peek(list) == list

\* redis RPOP: the list without its last element
RPopRest(list) == SubSeq(list, 1, Len(list) - 1)

\* parallel_executor.py 306-309
get_available_containers ==
    Max(0, max_containers - Cardinality(active_containers))

\* no future is ever seen as done
DoneFutures_Never == {}

\* the futures whose _run_single_use_case has returned
DoneFutures == {i \in futures : f_pc[i] = "done"}

\* the worker threads of the ThreadPoolExecutor that are busy
BusyThreads == {i \in ParUseCases : f_pc[i] \in {"waiting"}}

\* parallel_executor.py 39-69 and 416-424: the use cases are pushed on the
\* Redis list in list order
OrchAddToQueue ==
    /\ o_pc = "start"
    /\ redis_queue' = LPush(redis_queue, [k \in 1..o_n |-> k - 1])
    /\ o_pc' = "slots"
    /\ UNCHANGED <<job, o_n, max_containers, active_containers, futures,
                   available_slots, o_completed, o_failed, f_pc, f_result,
                   uc_status, par_containers, celery_vars, pool_vars, container_info, monitor_vars>>

\* line 431
OrchSlots ==
    /\ o_pc = "slots"
    /\ available_slots' = get_available_containers
    /\ o_pc' = "dequeue"
    /\ UNCHANGED <<job, o_n, max_containers, redis_queue, active_containers,
                   futures, o_completed, o_failed, f_pc, f_result,
                   uc_status, par_containers, celery_vars, pool_vars, container_info, monitor_vars>>

\* lines 433-448: one iteration of the slot loop that finds a use case
OrchSubmit ==
    /\ o_pc = "dequeue"
    /\ available_slots > 0
    /\ redis_queue # <<>>
    /\ LET use_case == RPopValue(redis_queue) IN
          /\ f_pc' = [f_pc EXCEPT ![use_case] = "submitted"]
          /\ futures' = futures \cup {use_case}
    /\ redis_queue' = RPopRest(redis_queue)
    /\ available_slots' = available_slots - 1
    /\ UNCHANGED <<job, o_pc, o_n, max_containers, active_containers,
                   o_completed, o_failed, f_result, uc_status, par_containers,
                   celery_vars, pool_vars, container_info, monitor_vars>>

\* lines 433-436: the slot loop ends (no slot left, or the queue is empty)
OrchSubmitDone ==
    /\ o_pc = "dequeue"
    /\ (available_slots = 0 \/ redis_queue = <<>>)
    /\ o_pc' = "collect"
    /\ UNCHANGED <<job, o_n, max_containers, redis_queue, active_containers,
                   futures, available_slots, o_completed, o_failed, f_pc,
                   f_result, uc_status, par_containers, celery_vars, pool_vars, container_info, monitor_vars>>

\* lines 450-463: the futures that are done are counted and dropped
OrchCollect ==
    /\ o_pc = "collect"
    /\ o_completed' = o_completed
          + Cardinality({i \in DoneFutures : f_result[i].exit_code = 0})
    /\ o_failed' = o_failed
          + Cardinality({i \in DoneFutures : f_result[i].exit_code # 0})
    /\ futures' = futures \ DoneFutures
    /\ o_pc' = "check"
    /\ UNCHANGED <<job, o_n, max_containers, redis_queue, active_containers,
                   available_slots, f_pc, f_result, uc_status, par_containers,
                   celery_vars, pool_vars, container_info, monitor_vars>>

\* lines 465-469: `not futures and not get_next_use_case(job_id)`; with no
\* future left get_next_use_case pops the queue, and the popped use case is
\* not used
OrchCheck ==
    /\ o_pc = "check"
    /\ IF futures = {}
       THEN IF redis_queue = <<>>
            THEN /\ o_pc' = "returned"
                 /\ UNCHANGED redis_queue
            ELSE /\ redis_queue' = RPopRest(redis_queue)
                 /\ o_pc' = "sleep"
       ELSE /\ o_pc' = "sleep"
            /\ UNCHANGED redis_queue
    /\ UNCHANGED <<job, o_n, max_containers, active_containers, futures,
                   available_slots, o_completed, o_failed, f_pc, f_result,
                   uc_status, par_containers, celery_vars, pool_vars, container_info, monitor_vars>>

\* line 469: asyncio.sleep(2) returns
OrchSleep ==
    /\ o_pc = "sleep"
    /\ o_pc' = "slots"
    /\ UNCHANGED <<job, o_n, max_containers, redis_queue, active_containers,
                   futures, available_slots, o_completed, o_failed, f_pc,
                   f_result, uc_status, par_containers, celery_vars, pool_vars, container_info, monitor_vars>>

\* lines 489-499 and 114-190: a free worker thread takes the future, stores
\* status running and starts the container
WorkerStart(i) ==
    /\ f_pc[i] = "submitted"
    /\ Cardinality(BusyThreads) < max_containers
    /\ uc_status' = [uc_status EXCEPT ![i] = "running"]
    /\ par_containers' = [par_containers EXCEPT ![i] = "running"]
    /\ active_containers' = active_containers \cup {i}
    /\ f_pc' = [f_pc EXCEPT ![i] = "waiting"]
    /\ container_info' = [container_info EXCEPT
                              ![i] = [NoContainerInfo EXCEPT !.status = "running"]]
    /\ UNCHANGED <<job, o_pc, o_n, max_containers, redis_queue, futures,
                   available_slots, o_completed, o_failed, f_result,
                   celery_vars, pool_vars, monitor_vars>>

\* lines 192-194 and 512-517: start_container raises
WorkerStartFails(i) ==
    /\ f_pc[i] = "submitted"
    /\ Cardinality(BusyThreads) < max_containers
    /\ uc_status' = [uc_status EXCEPT ![i] = "failed"]
    /\ f_result' = [f_result EXCEPT ![i] = [exit_code |-> -1, error |-> "exception"]]
    /\ f_pc' = [f_pc EXCEPT ![i] = "done"]
    /\ UNCHANGED <<job, o_pc, o_n, max_containers, redis_queue,
                   active_containers, futures, available_slots, o_completed,
                   o_failed, par_containers, celery_vars, pool_vars, container_info, monitor_vars>>

\* line 506
FinalStatus(exit_code) == IF exit_code = 0 THEN "completed" ELSE "failed"

\* lines 255-263: the container record is read, gets its final status,
\* exit_code and completed_at, and is written back
ContainerFinished(info, exit_code) ==
    [info EXCEPT !.status = FinalStatus(exit_code),
                 !.exit_code = {exit_code},
                 !.completed_at = TRUE]

\* lines 246-278 and 504-510: the wait loop sees the container exited
WorkerSeesExit(i) ==
    /\ f_pc[i] = "waiting"
    /\ par_containers[i] \in ExitedStates
    /\ LET exit_code == IF par_containers[i] = "exited0" THEN 0 ELSE 1 IN
          /\ f_result' = [f_result EXCEPT ![i] = [exit_code |-> exit_code, error |-> "none"]]
          /\ uc_status' = [uc_status EXCEPT ![i] = FinalStatus(exit_code)]
    /\ par_containers' = [par_containers EXCEPT ![i] = "removed"]
    /\ active_containers' = active_containers \ {i}
    /\ f_pc' = [f_pc EXCEPT ![i] = "done"]
    /\ container_info' = [container_info EXCEPT ![i] =
          ContainerFinished(@, IF par_containers[i] = "exited0" THEN 0 ELSE 1)]
    /\ UNCHANGED <<job, o_pc, o_n, max_containers, redis_queue, futures,
                   available_slots, o_completed, o_failed, celery_vars, pool_vars, monitor_vars>>

\* lines 282-296: what the timeout branch does to active_containers
AfterTimeout(active, i) == active

\* lines 245, 282-296 and 504-510: the timeout has passed, the container is
\* killed and exit_code -1 with error "timeout" is returned
WorkerTimeout(i) ==
    /\ f_pc[i] = "waiting"
    /\ par_containers[i] = "overrun"
    /\ par_containers' = [par_containers EXCEPT ![i] = "killed"]
    /\ f_result' = [f_result EXCEPT ![i] = [exit_code |-> -1, error |-> "timeout"]]
    /\ uc_status' = [uc_status EXCEPT ![i] = FinalStatus(-1)]
    /\ active_containers' = AfterTimeout(active_containers, i)
    /\ f_pc' = [f_pc EXCEPT ![i] = "done"]
    /\ UNCHANGED <<job, o_pc, o_n, max_containers, redis_queue, futures,
                   available_slots, o_completed, o_failed, celery_vars, pool_vars, container_info, monitor_vars>>

\* lines 298-304: container.reload or the Redis update raises in the wait loop
WorkerWaitFails(i) ==
    /\ f_pc[i] = "waiting"
    /\ f_result' = [f_result EXCEPT ![i] = [exit_code |-> -1, error |-> "exception"]]
    /\ uc_status' = [uc_status EXCEPT ![i] = FinalStatus(-1)]
    /\ f_pc' = [f_pc EXCEPT ![i] = "done"]
    /\ UNCHANGED <<job, o_pc, o_n, max_containers, redis_queue,
                   active_containers, futures, available_slots, o_completed,
                   o_failed, par_containers, celery_vars, pool_vars, container_info, monitor_vars>>

\* the container of use case i exits
ParContainerExit(i, code) ==
    /\ par_containers[i] \in RunningStates
    /\ par_containers' = [par_containers EXCEPT
                             ![i] = IF code = 0 THEN "exited0" ELSE "exited1"]
    /\ UNCHANGED <<job, o_pc, o_n, max_containers, redis_queue,
                   active_containers, futures, available_slots, o_completed,
                   o_failed, f_pc, f_result, uc_status, celery_vars, pool_vars, container_info, monitor_vars>>

\* the container of use case i is still running when the timeout has passed
ParContainerOverrun(i) ==
    /\ par_containers[i] = "running"
    /\ par_containers' = [par_containers EXCEPT ![i] = "overrun"]
    /\ UNCHANGED <<job, o_pc, o_n, max_containers, redis_queue,
                   active_containers, futures, available_slots, o_completed,
                   o_failed, f_pc, f_result, uc_status, celery_vars, pool_vars, container_info, monitor_vars>>


\* ------------------------------------------------------ ContainerMonitor
\* container_monitor.py lines 50-51: keys("parallel:container:*")
MonitorKeys ==
    /\ m_pc = "sleep"
    /\ m_keys' = {i \in ParUseCases : container_info[i].status # "none"}
    /\ m_pc' = "loop"
    /\ UNCHANGED <<job, o_pc, o_n, max_containers, redis_queue,
                   active_containers, futures, available_slots, o_completed,
                   o_failed, f_pc, f_result, uc_status, par_containers,
                   container_info, m_key, m_info, celery_vars, pool_vars>>

\* lines 53-60: the next key, in the order keys() gave, and its record
MonitorRead(i) ==
    /\ m_pc = "loop"
    /\ i \in m_keys
    /\ m_keys' = m_keys \ {i}
    /\ m_key' = i
    /\ m_info' = container_info[i]
    /\ m_pc' = "write"
    /\ UNCHANGED <<job, o_pc, o_n, max_containers, redis_queue,
                   active_containers, futures, available_slots, o_completed,
                   o_failed, f_pc, f_result, uc_status, par_containers,
                   container_info, celery_vars, pool_vars>>

\* lines 62-63: the record that was read, with last_check
WithLastCheck(info) == [info EXCEPT !.last_check = TRUE]

\* lines 62-78: last_check is set in the record that was read and the record
\* is written back under its key
MonitorWrite ==
    /\ m_pc = "write"
    /\ container_info' = [container_info EXCEPT ![m_key] = WithLastCheck(m_info)]
    /\ m_info' = NoContainerInfo
    /\ m_pc' = "loop"
    /\ UNCHANGED <<job, o_pc, o_n, max_containers, redis_queue,
                   active_containers, futures, available_slots, o_completed,
                   o_failed, f_pc, f_result, uc_status, par_containers,
                   m_keys, m_key, celery_vars, pool_vars>>

\* lines 40-43: the pass is over, asyncio.sleep(check_interval)
MonitorPassDone ==
    /\ m_pc = "loop"
    /\ m_keys = {}
    /\ m_pc' = "sleep"
    /\ UNCHANGED <<job, o_pc, o_n, max_containers, redis_queue,
                   active_containers, futures, available_slots, o_completed,
                   o_failed, f_pc, f_result, uc_status, par_containers,
                   container_info, m_keys, m_key, m_info, celery_vars,
                   pool_vars>>

MonitorNext ==
    \/ MonitorKeys
    \/ \E i \in ParUseCases : MonitorRead(i)
    \/ MonitorWrite
    \/ MonitorPassDone

\* UseCaseOrchestrator(max_parallel).execute_job_parallel(job_id, use_cases, ...)
InitPar ==
    /\ CeleryIdle
    /\ PoolIdle
    /\ job = NewJobData
    /\ o_pc = "start"
    /\ o_n \in 1..MaxParUseCases
    /\ output_dir = [use_cases_json |-> "valid", n |-> o_n,
                     extraction_error_log |-> FALSE]
    /\ max_containers \in 1..MaxParContainers
    /\ redis_queue = <<>>
    /\ active_containers = {}
    /\ futures = {}
    /\ available_slots = 0
    /\ o_completed = 0
    /\ o_failed = 0
    /\ f_pc = [i \in ParUseCases |-> "none"]
    /\ f_result = [i \in ParUseCases |-> NoResult]
    /\ uc_status = [i \in ParUseCases |-> "none"]
    /\ par_containers = [i \in ParUseCases |-> "none"]
    /\ MonitorIdle

NextPar ==
    \/ OrchAddToQueue
    \/ OrchSlots
    \/ OrchSubmit
    \/ OrchSubmitDone
    \/ OrchCollect
    \/ OrchCheck
    \/ OrchSleep
    \/ \E i \in ParUseCases : WorkerStart(i)
    \/ \E i \in ParUseCases : WorkerStartFails(i)
    \/ \E i \in ParUseCases : WorkerSeesExit(i)
    \/ \E i \in ParUseCases : WorkerTimeout(i)
    \/ \E i \in ParUseCases : WorkerWaitFails(i)
    \/ \E i \in ParUseCases, code \in {0, 1} : ParContainerExit(i, code)
    \/ \E i \in ParUseCases : ParContainerOverrun(i)

SpecPar == InitPar /\ [][NextPar]_vars

\* the steps of execute_job_parallel itself
OrchNext ==
    \/ OrchAddToQueue
    \/ OrchSlots
    \/ OrchSubmit
    \/ OrchSubmitDone
    \/ OrchCollect
    \/ OrchCheck
    \/ OrchSleep

\* the coroutine keeps running, a free thread of the pool takes a submitted
\* future, the wait loop keeps polling its container, and every started
\* container exits or is still running when the wait timeout has passed
ParFairness ==
    /\ WF_vars(OrchNext)
    /\ \A i \in ParUseCases :
          /\ WF_vars(WorkerStart(i) \/ WorkerStartFails(i))
          /\ WF_vars(WorkerSeesExit(i) \/ WorkerTimeout(i))
          /\ WF_vars((\E code \in {0, 1} : ParContainerExit(i, code))
                        \/ ParContainerOverrun(i))

SpecParFair == InitPar /\ [][NextPar]_vars /\ ParFairness

\* execute_job_parallel with ContainerMonitor.start_monitoring(job_id) running
NextMonitor == NextPar \/ MonitorNext

SpecMonitor == InitPar /\ [][NextMonitor]_vars

\* the three ways the use cases of a job are executed: one Celery task per
\* use case (tasks.py), one call of the container pool (docker_runner.py),
\* or the orchestrator threads of parallel_executor.py
InitExecution == InitCelery \/ InitPoolFair \/ InitPar

NextExecution == NextCelery \/ NextPool \/ NextPar

SpecExecution == InitExecution /\ [][NextExecution]_vars

\* the two executions that take the use cases of a job from a queue: one
\* call of the container pool, or one call of the orchestrator
InitQueues == InitPoolFair \/ InitPar

NextQueues == NextPool \/ NextPar

SpecQueues == InitQueues /\ [][NextQueues]_vars

\* ------------------------------------------------ claims on the fan-out path
\* the use-case map has been stored by analyze_repository
MapStored == a_pc \in {"dispatch", "returned"}

\* C1: every job record persisted after the use-case map has been stored has
\* pending + running + completed + failed = total_use_cases (the record has
\* no running counter), the completed and failed counters equal the number of
\* use-case records with that status, the pending counter covers the records
\* still pending or running; before extraction total_use_cases is 0.
C1_CounterInvariant ==
    /\ job.pending + job.completed + job.failed = job.total_use_cases
    /\ MapStored =>
          /\ job.completed = CountStatus(job.use_cases, "completed")
          /\ job.failed = CountStatus(job.use_cases, "failed")
          /\ job.pending = CountStatus(job.use_cases, "pending")
                             + CountStatus(job.use_cases, "running")
    /\ ~MapStored => job.total_use_cases = 0

\* the order of the use-case statuses: pending, then running, then terminal
StatusRank(s) ==
    CASE s = "pending" -> 0
      [] s = "running" -> 1
      [] OTHER -> 2

NeverRegresses(old, new) ==
    \/ old = new
    \/ StatusRank(old) < StatusRank(new)

\* C2: the persisted status of a use case never regresses; it only moves
\* pending -> running -> {completed, failed}.
C2_MonotonicStatus ==
    [][\A k \in DOMAIN job.use_cases :
          k \in DOMAIN job'.use_cases
          /\ NeverRegresses(job.use_cases[k].status, job'.use_cases[k].status)]_vars

\* execute_single_use_case(i) has stored its terminal update
TaskFinished(i) == t_pc[i] \in {"returned", "raised"}

\* C5: the terminal update of every finished use case survives in the
\* persisted use-case map; no writer's stale copy overwrites it.
C5_TerminalUpdatesSurvive ==
    \A i \in Tasks :
        TaskFinished(i) /\ i \in DOMAIN job.use_cases
            => job.use_cases[i].status \in TerminalUseCaseStatus

\* every use-case record of the job is terminal
AllTerminal(use_cases) ==
    \A k \in DOMAIN use_cases : use_cases[k].status \in TerminalUseCaseStatus

\* C10: when the last use case of a job has reached a terminal status, the
\* job status is completed if the failed count is 0 and
\* completed_with_errors otherwise.
C10_FinalStatusByFailedCount ==
    (MapStored /\ job.total_use_cases > 0 /\ AllTerminal(job.use_cases))
        => job.status = IF job.failed = 0 THEN "completed"
                        ELSE "completed_with_errors"

\* ------------------------------------------- claims on the container pool
\* C3: the number of containers held in container_pool never exceeds
\* pool_size; the initial batch dequeues min(pool_size, n) use cases, one per
\* iteration, and leaves the other n - min(pool_size, n) queued.
C3_PoolBound ==
    /\ Len(container_pool) <= pool_size
    /\ p_pc = "initial" =>
          /\ p_i <= Min(pool_size, p_n)
          /\ Len(use_case_queue) = p_n - p_i
          /\ Len(container_pool) =
                p_i - Cardinality({i \in PoolUseCases : containers[i] = "start_failed"})
    /\ p_pc \in {"loop", "backfill", "sleep", "done"} =>
          Len(use_case_queue) <= p_n - Min(pool_size, p_n)

\* the pool is full while use cases are still queued
C3_Witness ==
    /\ p_pc = "sleep"
    /\ Len(container_pool) = pool_size
    /\ use_case_queue # <<>>
    /\ p_n > pool_size

\* every use case has been dequeued and no container of the pool is running
AllItemsTerminal ==
    /\ p_pc \in {"initial", "loop", "backfill", "sleep"}
    /\ use_case_queue = <<>>
    /\ \A i \in Range(container_pool) : containers[i] \notin RunningStates

PoolTerminated == p_pc \in {"done", "raised"}

\* C4: with pool_size >= 1 and a finite list, the call terminates once all
\* items have reached a terminal status, and it returns only when both
\* container_pool and use_case_queue are empty.
C4_DrainTermination ==
    /\ AllItemsTerminal ~> PoolTerminated
    /\ [](p_pc = "done" => container_pool = <<>> /\ use_case_queue = <<>>)

\* the call has returned after backfilling at least one slot
C4_Witness ==
    /\ p_pc = "done"
    /\ p_n > pool_size
    /\ Len(results) = p_n

\* C6: when the call returns, the result list is ordered by ascending
\* use_case_index and holds exactly one entry for every index 0..n-1.
C6_ResultsOrderedComplete ==
    p_pc = "done" =>
        /\ Len(results) = p_n
        /\ \A k \in DOMAIN results : results[k].use_case_index = k - 1

\* C7: a use case whose container could not be started is recorded as failed
\* with the causing error in the result list and in its persisted record, and
\* occupies no pool slot.
C7_StartFailureRecorded ==
    \A i \in PoolUseCases :
        containers[i] = "start_failed" =>
            /\ \E k \in DOMAIN results :
                  /\ results[k].use_case_index = i
                  /\ results[k].status = "failed"
                  /\ results[k].error # "none"
            /\ redis_client => job.use_cases[i].status = "failed"
            /\ i \notin Range(container_pool)

\* C9: a poll that finds a container running past its time budget marks its
\* use case failed with a timeout error and frees its slot, so that the
\* container blocks neither the queue nor the return of the call.
C9_TimeoutIsolation ==
    [][(p_pc = "loop" /\ p_pc' = "backfill") =>
          \A i \in Range(container_pool) :
              containers[i] = "overrun" =>
                  /\ i \notin Range(container_pool')
                  /\ \E k \in DOMAIN results' :
                        /\ results'[k].use_case_index = i
                        /\ results'[k].status = "failed"
                        /\ results'[k].error = "timeout"]_vars

\* -------------------------------------- claims on ParallelDockerExecutor
\* wait_for_container_completion(i) has returned because of the timeout
TimedOut(i) == f_pc[i] = "done" /\ f_result[i].error = "timeout"

\* C8: a container that has not exited when the timeout of
\* wait_for_container_completion expires is force-terminated, its use case is
\* classified failed with a timeout error, and it is removed from
\* active_containers, so that get_available_containers counts its slot again.
C8_TimeoutFreesSlot ==
    \A i \in ParUseCases :
        TimedOut(i) =>
            /\ par_containers[i] = "killed"
            /\ uc_status[i] = "failed"
            /\ i \notin active_containers

\* ----------------------------------------- claims on error handling
\* the results a poll has appended
NewResults == SubSeq(results', Len(results) + 1, Len(results'))

NewIndices == {NewResults[k].use_case_index : k \in DOMAIN NewResults}

\* a poll of the container pool: lines 288-379
PollStep == p_pc = "loop" /\ p_pc' = "backfill"

\* C11, pool: a poll gives a container that exited non-zero, or whose status
\* check raised, one failed result under its own index; the poll goes on to
\* the backfill, the queue is as it was, and a container with no result in
\* this poll stays in the pool, its state and its record unchanged
C11_PollIsolates ==
    PollStep =>
       /\ \A i \in Range(container_pool) :
             containers[i] = "exited1" =>
                /\ Cardinality({k \in DOMAIN NewResults :
                                   NewResults[k].use_case_index = i}) = 1
                /\ \A k \in DOMAIN NewResults :
                      NewResults[k].use_case_index = i =>
                         NewResults[k].status = "failed"
       /\ \A k \in DOMAIN NewResults :
             /\ NewResults[k].use_case_index \in Range(container_pool)
             /\ NewResults[k].error = "exception" =>
                   NewResults[k].status = "failed"
       /\ use_case_queue' = use_case_queue
       /\ \A j \in Range(container_pool) \ NewIndices :
             /\ j \in Range(container_pool')
             /\ containers'[j] = containers[j]
       /\ \A j \in DOMAIN job.use_cases \ NewIndices :
             job'.use_cases[j] = job.use_cases[j]
       /\ job'.status = job.status

\* C11, tasks: no step of an execute_single_use_case task leaves the job in
\* status failed
C11_TaskNeverFailsJob ==
    (\E i \in Tasks : t_pc'[i] # t_pc[i]) => job'.status # "failed"

\* C11: a per-use-case execution error is isolated to that use case: the
\* pool records it failed under its own index only, does not raise, leaves
\* the other containers alone and dispatches every queued use case before
\* it returns; the job never gets status failed because of it
C11_ErrorIsolated ==
    [][/\ C11_PollIsolates
       /\ C11_TaskNeverFailsJob
       /\ p_pc' = "done" =>
             \A i \in 0..(p_n - 1) : containers'[i] # "none"]_vars

\* a poll has recorded a failed result while another container is in the
\* pool
C11_Witness ==
    /\ p_pc = "backfill"
    /\ \E k \in DOMAIN results : results[k].status = "failed"
    /\ container_pool # <<>>

\* a worker thread of the orchestrator ends _run_single_use_case for use case i
WorkerEnds(i) == f_pc[i] \in {"submitted", "waiting"} /\ f_pc'[i] = "done"

\* execute_single_use_case for use case i stores the result of its container
TaskStoresResult(i) ==
    /\ t_pc[i] = "result_write"
    /\ t_pc'[i] = "returned"
    /\ i \in DOMAIN t_job_data[i].use_cases

NoTaskDispatched == \A i \in Tasks : t_pc[i] = "none"

\* C13: when extraction yields zero use cases the job goes directly to status
\* completed and no use-case execution is started: once analyze_repository
\* has returned with an empty list, the stored status is completed and no
\* execute_single_use_case task was dispatched
C13_NoUseCasesCompletes ==
    (a_pc = "returned" /\ a_n = 0) =>
       /\ job.status = "completed"
       /\ NoTaskDispatched

\* Repo.clone_from raises (line 62)
CloneFails == a_pc = "cloning" /\ a_pc' = "raised"

\* C14: if cloning fails the job goes directly to status failed with the
\* clone error recorded, the use-case map stays empty with total_use_cases 0,
\* no extraction and no use-case task is started, and the task, once it has
\* raised, does nothing more (no retry of the clone)
C14_CloneFailure ==
    [][/\ CloneFails =>
             /\ job'.status = "failed"
             /\ job'.error = "clone_from"
             /\ job'.use_cases = <<>>
             /\ job'.total_use_cases = 0
             /\ extraction_result' = "none"
             /\ NoTaskDispatched'
       /\ (a_pc = "raised" /\ job.error = "clone_from") =>
             /\ a_pc' = "raised"
             /\ extraction_result' = "none"
             /\ NoTaskDispatched']_vars

\* the clone has failed and the task has raised
C14_Witness ==
    /\ a_pc = "raised"
    /\ job.error = "clone_from"
    /\ job.status = "failed"
    /\ deliveries = 1

\* C15: if the extraction step fails, the final persisted status of the job
\* is extraction_failed with the captured error, and no use-case task is
\* dispatched
C15_ExtractionFailed ==
    (a_pc = "raised" /\ extraction_result = "raised") =>
       /\ job.status = "extraction_failed"
       /\ job.error = "extract_use_cases"
       /\ NoTaskDispatched

\* extract_use_cases has returned and left no use_cases.json
ExtractedNothing ==
    /\ extraction_result = "completed"
    /\ output_dir.use_cases_json = "absent"

\* the job was given zero use cases and was not failed
ZeroUseCases ==
    /\ a_pc \in {"dispatch", "returned"}
    /\ a_n = 0
    /\ job.total_use_cases = 0
    /\ job.use_cases = <<>>
    /\ job.status # "failed"
    /\ job.error = "none"

\* C16 as stated: if extract_use_cases returns but use_cases.json is absent,
\* analyze_repository treats this as zero use cases and does not fail the job
C16_AbsentIsZero == ExtractedNothing => ZeroUseCases

\* C16 amended: if extract_use_cases returns but use_cases.json is absent,
\* analyze_repository treats this as zero use cases and does not fail the
\* job, unless the output directory holds extraction_error.log: then the
\* job is failed with the content of that log as its error
C16_AbsentIsZeroUnlessErrorLog ==
    ExtractedNothing =>
       IF output_dir.extraction_error_log
       THEN /\ a_pc = "raised"
            /\ job.status = "failed"
            /\ job.error = "extraction_error_log"
       ELSE ZeroUseCases

\* analyze_repository has returned for an output directory with neither
\* use_cases.json nor extraction_error.log
C16_Witness ==
    /\ ExtractedNothing
    /\ ~output_dir.extraction_error_log
    /\ a_pc = "returned"
    /\ job.status = "queued"

\* extract_use_cases has returned and left a use_cases.json of the given kinds
ExtractedFile(kinds) ==
    /\ extraction_result = "completed"
    /\ output_dir.use_cases_json \in kinds

\* the phase failed: failure status, error recorded, exception re-raised,
\* no use-case record and no use-case task
PhaseFatal ==
    /\ a_pc = "raised"
    /\ job.status = "failed"
    /\ job.error \in {"use_cases_json", "use_cases_items"}
    /\ job.use_cases = <<>>
    /\ job.total_use_cases = 0
    /\ NoTaskDispatched

\* C17 as stated: a use_cases.json that is present but not parseable, or not
\* of the expected shape, is a phase-level fatal error
C17_CorruptIsFatal ==
    ExtractedFile({"unparseable", "not_object", "no_key", "bad_items"})
       => PhaseFatal

\* C17 amended: a use_cases.json that is present but not parseable, whose
\* top-level value is not an object, or whose "use_cases" items are not
\* objects, is a phase-level fatal error; an object without "use_cases"
\* is read as zero use cases
C17_UnreadableIsFatal ==
    /\ ExtractedFile({"unparseable", "not_object", "bad_items"}) => PhaseFatal
    /\ ExtractedFile({"no_key"}) => ZeroUseCases

\* analyze_repository has raised on a use_cases.json that does not parse
C17_Witness ==
    /\ ExtractedFile({"unparseable"})
    /\ a_pc = "raised"
    /\ job.error = "use_cases_json"

TerminalJobStatus ==
    {"completed", "completed_with_errors", "failed", "extraction_failed"}

\* C19: once the persisted status of a job is terminal no later operation
\* changes it (no late result or error of execute_single_use_case, no
\* status query), and a use case whose task has ended is not executed again
C19_TerminalStatusFinal ==
    [][/\ job.status \in TerminalJobStatus => job'.status = job.status
       /\ \A i \in Tasks :
             t_pc[i] \in {"returned", "raised"} => t_pc'[i] = t_pc[i]]_vars

\* the counters of the job record
Counts(job_data) ==
    <<job_data.total_use_cases, job_data.completed, job_data.failed,
      job_data.pending>>

\* C20: delivering the analysis task again is safe: a step of
\* analyze_repository or of initialize_job on a job that has use-case
\* records leaves the counts and every existing record as they are
C20_RedeliverySafe ==
    [][(t_pc' = t_pc /\ job.use_cases # <<>>) =>
          /\ Counts(job') = Counts(job)
          /\ job'.use_cases = job.use_cases]_vars

\* --------------------------------------------- claims on get_job_status
\* a step of AnalysisService.get_job_status
QueryStep == q_pc' # q_pc \/ q_job_data' # q_job_data

\* C21: get_job_status is a read-only projection of the job: no step of a
\* call, at any point of the life of the job and in any interleaving with
\* the tasks, changes the persisted job record
C21_QueryReadOnly == [][QueryStep => job' = job]_vars

\* C22: for every job record the tasks can leave in the store,
\* get_job_status returns the view of the job and does not raise
C22_QueryReturns == q_pc # "raised"

\* ------------------------------------------------- claims on the queues
\* the use cases execute_use_cases_with_pool has taken from use_case_queue
PoolDequeued == {i \in 0..(p_n - 1) : i \notin Range(use_case_queue)}

\* the use cases get_next_use_case has taken from the Redis list
ParDequeued == {i \in 0..(o_n - 1) : i \notin Range(redis_queue)}

\* add_use_cases_to_queue has filled the Redis list
ParQueued == o_pc \notin {"idle", "start"}

\* C23: use cases are dispatched in queue (index) order: every use case
\* dequeued so far has a smaller index than every use case still queued, the
\* next one to be dequeued (the head of use_case_queue, the tail of the Redis
\* list) is the smallest of the queued ones, and only dequeued use cases have
\* been started
C23_DispatchOrder ==
    /\ p_pc # "idle" =>
          /\ \A i \in PoolDequeued, j \in Range(use_case_queue) : i < j
          /\ \A k \in 1..(Len(use_case_queue) - 1) :
                use_case_queue[k] < use_case_queue[k + 1]
          /\ \A i \in PoolUseCases : containers[i] # "none" => i \in PoolDequeued
    /\ ParQueued =>
          /\ \A i \in ParDequeued, j \in Range(redis_queue) : i < j
          /\ \A k \in 1..(Len(redis_queue) - 1) :
                redis_queue[k] > redis_queue[k + 1]
          /\ \A i \in ParUseCases : f_pc[i] # "none" => i \in ParDequeued

\* the orchestrator has dequeued use case 0 while use case 1 is still queued
C23_Witness ==
    /\ o_pc = "collect"
    /\ futures = {0}
    /\ redis_queue = <<1>>

\* the elements of a sequence are pairwise different
NoDuplicates(seq) == Cardinality(Range(seq)) = Len(seq)

C25_StoreErrorSurfaced ==
    [][/\ AnalyzeBeginUnreachable => a_pc' = "raised"
       /\ (\E dir \in OutputDirs : AnalyzeStoreUnreachable(dir))
             => a_pc' = "raised"
       /\ \A i \in Tasks :
             TaskResultUnreachable(i) => t_pc'[i] = "except_read"]_vars

\* ------------------------------------- claims on the manager-level handler
\* the manager-level handler of execute_use_cases_with_pool raises
FatalStep == p_pc # "raised" /\ p_pc' = "raised"

\* C26: when execute_use_cases_with_pool hits a manager-level fatal error,
\* a forced removal is attempted on every container still in container_pool
\* (each one ends removed, or its removal has failed), a failed removal
\* stops neither the other removals nor the raise, and the call raises in
\* the same step; the pool itself and the containers that were collected
\* earlier are left as they were
C26_FatalCleanup ==
    [][FatalStep =>
          /\ \A i \in Range(container_pool) :
                containers'[i] \in {"removed", "remove_failed"}
          /\ \A i \in PoolUseCases \ Range(container_pool) :
                containers[i] # "none" => containers'[i] = containers[i]
          /\ container_pool' = container_pool
          /\ results' = results]_vars

\* the call has raised with two containers in the pool: the removal of the
\* first one failed, the second one was removed all the same
C26_Witness ==
    /\ p_pc = "raised"
    /\ Len(container_pool) = 2
    /\ containers[container_pool[1]] = "remove_failed"
    /\ containers[container_pool[2]] = "removed"

\* ------------------------------------------- claims on the end of a job
\* analyze_repository has returned and every task it dispatched has ended
AllTasksFinished ==
    /\ a_pc = "returned"
    /\ a_n > 0
    /\ \A i \in 0..(a_n - 1) : TaskFinished(i)

\* C27: in the Celery fan-out path, once every execute_single_use_case task
\* of a job has finished, the persisted status of the job is a terminal one,
\* not queued or processing, for any interleaving of the reads and writes
\* of the tasks (no step follows the end of the last task, so the status of
\* that state is the final one)
C27_JobFinalized == AllTasksFinished => job.status \in TerminalJobStatus

\* C28: in execute_job_parallel every use case placed on the queue is started
\* in a container before the call returns: when the call has returned, every
\* use case of the job was handed to a worker thread
C28_AllQueuedStarted ==
    o_pc = "returned" => \A i \in 0..(o_n - 1) : f_pc[i] # "none"

\* C29: whenever the persisted status of a job is completed, every use-case
\* record of the job has a terminal status and the pending counter is 0,
\* under any interleaving of the tasks and of get_job_status calls
C29_CompletedMeansAllTerminal ==
    job.status = "completed" =>
       /\ AllTerminal(job.use_cases)
       /\ job.pending = 0

\* ------------------------------------------- claims on the orchestrator
\* the containers of start_container that are running
RunningContainers == {i \in ParUseCases : par_containers[i] \in RunningStates}

\* C30: in execute_job_parallel the number of simultaneously running
\* containers of a job never exceeds max_containers, under any interleaving
\* of the orchestration loop with the worker threads
C30_ContainerBound == Cardinality(RunningContainers) <= max_containers

\* C31: execute_use_cases_with_pool sleeps only while container_pool holds
\* at least one container, and never with both a free slot and a queued use
\* case: whenever the call is in time.sleep(10), container_pool is not empty
\* and either it holds pool_size containers or use_case_queue is empty.
C31_SleepOnlyWhenBusy ==
    p_pc = "sleep" =>
        /\ container_pool # <<>>
        /\ \/ Len(container_pool) = pool_size
           \/ use_case_queue = <<>>

\* the call sleeps with a free slot because nothing is left in the queue
C31_Witness ==
    /\ p_pc = "sleep"
    /\ container_pool # <<>>
    /\ Len(container_pool) < pool_size
    /\ use_case_queue = <<>>
    /\ results # <<>>

\* C32: with a store client, the pool changes the persisted record of a use
\* case only when its container is put in container_pool (pending to
\* running) and when that container leaves it (running to completed or
\* failed), and after every step each use case that has a container in
\* container_pool is persisted as running.
C32_RunningWhileInPool ==
    [][redis_client =>
        /\ \A i \in Range(container_pool') :
              job'.use_cases[i].status = "running"
        /\ \A i \in DOMAIN job.use_cases :
              job'.use_cases[i] # job.use_cases[i] =>
                 \/ /\ i \notin Range(container_pool)
                    /\ i \in Range(container_pool')
                    /\ job.use_cases[i].status = "pending"
                    /\ job'.use_cases[i].status = "running"
                 \/ /\ i \in Range(container_pool)
                    /\ i \notin Range(container_pool')
                    /\ job.use_cases[i].status = "running"
                    /\ job'.use_cases[i].status \in {"completed", "failed"}
        /\ \A i \in Range(container_pool) \ Range(container_pool') :
              job'.use_cases[i].status \in {"completed", "failed"}]_vars

\* one use case has finished and is persisted as completed while the
\* container of another is in the pool
C32_Witness ==
    /\ redis_client
    /\ container_pool # <<>>
    /\ \E i \in DOMAIN job.use_cases : job.use_cases[i].status = "completed"
    /\ \A i \in Range(container_pool) : job.use_cases[i].status = "running"

\* the persisted map holds exactly the keys 0..n-1 and the entry of key k
\* still carries the k-th extracted item
KeysAsExtracted(n) ==
    /\ DOMAIN job.use_cases = 0..(n - 1)
    /\ \A k \in 0..(n - 1) : job.use_cases[k].data = k

\* C33: once analyze_repository has stored the use-case map its key set is
\* {0..n-1} in extraction order, and no status update of
\* execute_single_use_case or of _update_use_case_status adds, removes or
\* re-indexes a key or changes the name or data of an entry.
C33_KeysStable ==
    /\ MapStored => KeysAsExtracted(a_n)
    /\ p_pc # "idle" => KeysAsExtracted(p_n)

\* two tasks have stored their status updates
C33_Witness ==
    /\ MapStored
    /\ a_n = 2
    /\ t_pc[0] = "returned"
    /\ t_pc[1] = "raised"
    /\ job.use_cases[0].status = "completed"
    /\ job.use_cases[1].status = "failed"

\* a worker has picked up the analysis task or one of its use-case tasks
WorkerHasJob ==
    \/ a_pc \notin {"submit", "stored", "submit_raised", "submitted"}
    \/ \E i \in Tasks : t_pc[i] # "none"

\* C34: submit_analysis stores the job record with status pending and all
\* counters 0 before it dispatches the analysis task: at the point of
\* send_task the store holds that record; while no record has been written
\* the call is still before the store write or has raised, and no worker has
\* the job.
C34_StoredBeforeDispatch ==
    /\ a_pc = "stored" =>
          /\ job.status = "pending"
          /\ job.total_use_cases = 0
          /\ job.completed = 0
          /\ job.failed = 0
          /\ job.pending = 0
          /\ job.use_cases = <<>>
    /\ job.status = "absent" =>
          /\ a_pc \in {"submit", "submit_raised"}
          /\ ~WorkerHasJob

\* the worker has started the task of a submitted job
C34_Witness ==
    /\ a_pc = "cloning"
    /\ job.status = "extracting"

\* the step in which update_job_field(job_id, "use_cases", ...) of task i
\* writes the record
FieldWriteStep(i) ==
    /\ t_pc[i] = "field_write"
    /\ t_pc'[i] = "execute"

\* C35: update_job_field on a job that has a record changes only the named
\* field (and updated_at): in the step in which it writes, every other field
\* of the persisted record keeps its value, also when its read of the
\* current record has failed.
C35_OnlyNamedField ==
    [][\A i \in Tasks :
          FieldWriteStep(i) =>
             \A field \in DOMAIN job \ {"use_cases"} :
                job'[field] = job[field]]_vars

\* C36: when execute_job_parallel returns, the completed and failed counts of
\* its summary add up to total_use_cases (len(use_cases)): every use case
\* was counted, and counted once.
C36_SummaryAddsUp ==
    o_pc = "returned" => o_completed + o_failed = o_n

\* C37: execute_job_parallel terminates: when every started container exits
\* or reaches the wait timeout, the loop eventually finds no outstanding
\* future and an empty queue and returns, also after containers have timed
\* out or failed to start.
C37_Terminates == <>(o_pc = "returned")

\* the call has returned after a timeout and a failed start
C37_Witness ==
    /\ o_pc = "returned"
    /\ \E i, j \in ParUseCases :
          /\ f_result[i].error = "timeout"
          /\ f_pc[j] = "done"
          /\ par_containers[j] = "none"

\* C38: a container record that is completed or failed keeps its status, its
\* exit_code and its completed_at in every step, under any interleaving of
\* ContainerMonitor._check_container_status with
\* wait_for_container_completion: the monitor only adds last_check.
C38_MonitorKeepsOutcome ==
    [][\A i \in ParUseCases :
          container_info[i].status \in {"completed", "failed"} =>
             /\ container_info'[i].status = container_info[i].status
             /\ container_info'[i].exit_code = container_info[i].exit_code
             /\ container_info'[i].completed_at = container_info[i].completed_at]_vars

====
